---------------------------- MODULE Spec2Model ----------------------------
(* A model of the operational utilities of the repository:                *)
(*   - TableDiscovery (src/utils/table_discovery.py) with the identifier  *)
(*     helpers of src/utils/table.py,                                     *)
(*   - RetryConfig (src/utils/retryConfig.py),                            *)
(*   - CsvExporter._merge_csv_parts (src/utils/catalogExporter.py),       *)
(*   - DatabricksAPIClient.get_all_runs_since                             *)
(*     (src/utils/databricksAPIConfig.py),                                *)
(*   - create_database (src/utils/catalogConfig.py) and DeltaTableUpdater *)
(*     (src/utils/deltaConfig.py), which share the Spark catalog.         *)
(* A Python str is a sequence of one-character strings, so that           *)
(* str.count, str.split, str.lower, str.strip and str.startswith are      *)
(* computed as Python computes them.                                      *)
EXTENDS Integers, Sequences, FiniteSets, TLC

(***************************************************************************)
(* Bounds of the model                                                     *)
(***************************************************************************)
MaxEvents == 3
MaxPageSize == 2
MaxTolerance == 2
MaxTreeEvents == 2
MaxTables == 2
MaxAttempts == 4
MaxBackoff == 2
MaxParts == 3
MaxCpus == 2
MaxRequests == 3
MaxUpdaters == 2

(***************************************************************************)
(* Python str operations                                                   *)
(***************************************************************************)
\* ord() of the characters the model's identifiers are written with; the
\* label "<unqualified>" is written as one character, ordered as its "<"
Ord(ch) ==
    CASE ch = " " -> 32
      [] ch = "-" -> 45
      [] ch = "." -> 46
      [] ch = "0" -> 48
      [] ch = "1" -> 49
      [] ch = "2" -> 50
      [] ch = "T" -> 84
      [] ch = "a" -> 97
      [] ch = "c" -> 99
      [] ch = "m" -> 109
      [] ch = "p" -> 112
      [] ch = "r" -> 114
      [] ch = "s" -> 115
      [] ch = "t" -> 116
      [] ch = "v" -> 118
      [] ch = "x" -> 120
      [] ch = "<unqualified>" -> 60

\* str.lower(), character by character
LowerCh(ch) == IF ch = "T" THEN "t" ELSE ch

Lower(s) == [i \in 1..Len(s) |-> LowerCh(s[i])]

\* str.startswith(p)
StartsWith(s, p) == Len(p) <= Len(s) /\ SubSeq(s, 1, Len(p)) = p

RECURSIVE LStrip(_)
LStrip(s) == IF s # <<>> /\ Head(s) = " " THEN LStrip(Tail(s)) ELSE s

RECURSIVE RStrip(_)
RStrip(s) ==
    IF s # <<>> /\ s[Len(s)] = " " THEN RStrip(SubSeq(s, 1, Len(s) - 1)) ELSE s

\* str.strip()
Strip(s) == RStrip(LStrip(s))

\* str.count(".")
DotCount(s) == Cardinality({i \in 1..Len(s) : s[i] = "."})

RECURSIVE SplitAcc(_, _, _)
SplitAcc(s, i, cur) ==
    IF i > Len(s) THEN <<cur>>
    ELSE IF s[i] = "." THEN <<cur>> \o SplitAcc(s, i + 1, <<>>)
    ELSE SplitAcc(s, i + 1, Append(cur, s[i]))

\* str.split(".")
Split(s) == SplitAcc(s, 1, <<>>)

\* the order of Python's str comparison (by code point, a prefix first)
RECURSIVE StrLess(_, _)
StrLess(a, b) ==
    IF b = <<>> THEN FALSE
    ELSE IF a = <<>> THEN TRUE
    ELSE IF Head(a) = Head(b) THEN StrLess(Tail(a), Tail(b))
    ELSE Ord(Head(a)) < Ord(Head(b))

\* sorted(S) of a set of str
RECURSIVE Sorted(_)
Sorted(S) ==
    IF S = {} THEN <<>>
    ELSE LET m == CHOOSE x \in S : \A y \in S \ {x} : StrLess(x, y)
         IN  <<m>> \o Sorted(S \ {m})

\* the elements of a list
Range(q) == {q[i] : i \in 1..Len(q)}

\* a list without the later occurrences of its elements: the keys of a dict
\* built from it, in insertion order
RECURSIVE DictKeys(_)
DictKeys(q) ==
    IF q = <<>> THEN <<>>
    ELSE LET r == DictKeys(SubSeq(q, 1, Len(q) - 1))
         IN  IF q[Len(q)] \in Range(r) THEN r ELSE Append(r, q[Len(q)])

(***************************************************************************)
(* src/utils/table.py                                                      *)
(***************************************************************************)
is_view(table_type) == table_type \in {"VIEW", "MATERIALIZED_VIEW"}

is_fully_qualified_table_name(name) == DotCount(name) = 2

\* [raised, cat, sch]: ValueError unless split(".") gives two parts
parse_catalog_schema_fqn(schema_fqn) ==
    LET parts == Split(schema_fqn)
    IN  IF Len(parts) # 2
        THEN [raised |-> TRUE, cat |-> <<>>, sch |-> <<>>]
        ELSE [raised |-> FALSE, cat |-> parts[1], sch |-> parts[2]]

qualify_table_name(catalog, schema, table) ==
    catalog \o <<".">> \o schema \o <<".">> \o table

\* [raised, val]
qualify_with_schema_fqn(schema_fqn, name) ==
    IF is_fully_qualified_table_name(name)
    THEN [raised |-> FALSE, val |-> name]
    ELSE LET cs == parse_catalog_schema_fqn(schema_fqn)
         IN  IF cs.raised
             THEN [raised |-> TRUE, val |-> <<>>]
             ELSE [raised |-> FALSE,
                   val |-> qualify_table_name(cs.cat, cs.sch, name)]

\* ensure_fully_qualified(name, default_schema_fqn=...); the default_catalog
\* and default_schema keywords are never passed by the callers modelled
ensure_fully_qualified(name, default_schema_fqn) ==
    IF is_fully_qualified_table_name(name)
    THEN [raised |-> FALSE, val |-> name]
    ELSE IF default_schema_fqn # <<>>
    THEN qualify_with_schema_fqn(default_schema_fqn, name)
    ELSE [raised |-> TRUE, val |-> <<>>]


(***************************************************************************)
(* The values the calls are made with                                      *)
(***************************************************************************)
\* None and "" are both falsy wherever the code tests them: one value
NoStr == <<>>

\* flow names found in pipeline events: "t", "s.Tm", "c.s.t"
FlowNames ==
    { <<"t">>, <<"s", ".", "T", "m">>, <<"c", ".", "s", ".", "t">> }

\* the update ids of pipeline events; LatestUpdate is latest_updates[0]
LatestUpdate == "u1"
OlderUpdate == "u0"

\* the origin of an event: its update_id and its flow_name (NoStr: none)
EventPool ==
    [update_id : {LatestUpdate}, flow_name : FlowNames \cup {NoStr}]
        \cup {[update_id |-> OlderUpdate, flow_name |-> <<"t">>]}

RECURSIVE SeqsUpTo(_, _)
SeqsUpTo(S, n) ==
    IF n = 0 THEN {<<>>}
    ELSE LET shorter == SeqsUpTo(S, n - 1)
         IN  shorter \cup {Append(q, x) : q \in {r \in shorter : Len(r) = n - 1}, x \in S}

EventStreams == SeqsUpTo(EventPool, MaxEvents)

\* assume_schema: absent, "c.s" (a catalog.schema), "c" (not one)
AssumeSchemas == { NoStr, <<"c", ".", "s">>, <<"c">> }

\* the pipelines list_pipelines() returns: "p" has updates, "q" has none
Pipelines ==
    { [name |-> <<"p">>, latest_updates |-> <<LatestUpdate, OlderUpdate>>],
      [name |-> <<"q">>, latest_updates |-> <<>>] }

\* constructor arguments: no exclusion, exclude_prefixes=["TM"],
\* exclude_prefix=" t "
ExcludeArgs ==
    { [exclude_prefixes |-> <<>>, exclude_prefix |-> NoStr],
      [exclude_prefixes |-> << <<"T", "m">> >>, exclude_prefix |-> NoStr],
      [exclude_prefixes |-> <<>>, exclude_prefix |-> <<" ", "t", " ">>] }

VARIABLES
    td,         \* the TableDiscovery object: include_views, exclude_prefixes,
                \* exclude_prefix_single
    p_pc,       \* discover_pipeline_tables: idle, paging, collected, done, raised
    p_args,     \* its arguments
    p_events,   \* the event iterable list_pipeline_events returned
    p_it,       \* how many events the iterator `it` has yielded
    p_names,    \* names
    p_empty,    \* empty
    p_hist,     \* one entry per page built: its length, whether it had names
    p_out,      \* out, before the excludes
    p_ret,      \* the value returned
    t_pc,       \* tree / discover_tables: idle, pipeline, built, returned, raised
    t_args,     \* the arguments of the call
    t_walks,    \* the discovery walks the call has run, in order
    t_built,    \* what _build_from_source returned: root_label, nested, payload
    t_result,   \* what the call returned: value, saved
    t_exc,      \* the exception the call raised
    fs,         \* the files the call has written
    r_pc,       \* RetryConfig wrapper: idle, running, returned, raised
    r_cfg,      \* the RetryConfig object: max_attempts, backoff, exceptions
    r_attempt,  \* attempt
    r_trace,    \* the invocations of func and the sleeps, in order
    r_result,   \* the value returned or the exception raised
    m_pc,       \* _merge_csv_parts: idle, reading, written, raised
    m_dir,      \* source_dir: the set of its files, each a name and its bytes
    m_dest,     \* dest_file
    m_cpus,     \* multiprocessing.cpu_count()
    m_tasks,    \* tasks
    m_taken,    \* how many tasks the pool's threads have taken off the queue
    m_running,  \* the tasks being read by a thread
    m_futures,  \* the results of the finished tasks, by position in tasks
    m_order,    \* the positions of the finished tasks, in completion order
    m_out,      \* the bytes written to dest_file, if any
    a_pc,       \* get_all_runs_since: idle, request, examine, page_done,
                \* returned, raised
    a_cutoff,   \* cutoff
    a_token,    \* next_page_token
    a_requests, \* the params of the list requests sent, in order
    a_responses,\* the JSON bodies of the list responses received, in order
    a_pos,      \* how many runs of the current page the for loop has taken
    a_examined, \* per run taken: its page, its position, whether it was
                \* skipped, and whether get_run_details succeeded
    a_runs_list,\* runs_list
    s_current,  \* the current catalog of the Spark session
    s_dbs,      \* the databases of the metastore, as <<catalog, database>>
    s_table,    \* the table the updaters are built for: missing, or its
                \* writer and its rows
    s_call,     \* the last create_database call: its arguments, what it
                \* found and the statements it executed
    s_upd       \* per DeltaTableUpdater: its position and what it saw

p_vars == <<p_pc, p_args, p_events, p_it, p_names, p_empty, p_hist, p_out, p_ret>>
t_vars == <<t_pc, t_args, t_walks, t_built, t_result, t_exc, fs>>
d_vars == <<td, p_vars, t_vars>>
r_vars == <<r_pc, r_cfg, r_attempt, r_trace, r_result>>
m_vars ==
    <<m_pc, m_dir, m_dest, m_cpus, m_tasks, m_taken, m_running, m_futures,
      m_order, m_out>>
a_vars ==
    <<a_pc, a_cutoff, a_token, a_requests, a_responses, a_pos, a_examined,
      a_runs_list>>
s_vars == <<s_current, s_dbs, s_table, s_call, s_upd>>
vars == <<d_vars, r_vars, m_vars, a_vars, s_vars>>

\* the wrapper has not been called; no merge has been started
RetryIdle ==
    /\ r_pc = "idle"
    /\ r_cfg = [max_attempts |-> 0, backoff |-> 0, exceptions |-> <<>>]
    /\ r_attempt = 0
    /\ r_trace = <<>>
    /\ r_result = [kind |-> "none", value |-> 0, exc |-> "none"]

MergeIdle ==
    /\ m_pc = "idle"
    /\ m_dir = {}
    /\ m_dest = <<>>
    /\ m_cpus = 0
    /\ m_tasks = <<>>
    /\ m_taken = 0
    /\ m_running = {}
    /\ m_futures = <<>>
    /\ m_order = <<>>
    /\ m_out = <<>>

\* get_all_runs_since has not been called
RunsIdle ==
    /\ a_pc = "idle"
    /\ a_cutoff = 0
    /\ a_token = "none"
    /\ a_requests = <<>>
    /\ a_responses = <<>>
    /\ a_pos = 0
    /\ a_examined = <<>>
    /\ a_runs_list = <<>>

\* no Spark session is in use
SparkIdle ==
    /\ s_current = "none"
    /\ s_dbs = {}
    /\ s_table = [by |-> <<"none">>, rows |-> 0, partitioned |-> FALSE]
    /\ s_call = [pc |-> "idle"]
    /\ s_upd = <<>>

\* what the operations of one component leave alone
not_discovery == <<r_vars, m_vars, a_vars, s_vars>>
not_retry == <<d_vars, m_vars, a_vars, s_vars>>
not_merge == <<d_vars, r_vars, a_vars, s_vars>>
not_runs == <<d_vars, r_vars, m_vars, s_vars>>
not_spark == <<d_vars, r_vars, m_vars, a_vars>>

(***************************************************************************)
(* TableDiscovery.__init__                                                 *)
(***************************************************************************)
TableDiscoveryInit(include_views, exclude_prefixes, exclude_prefix) ==
    [include_views |-> include_views,
     exclude_prefixes |-> [i \in 1..Len(exclude_prefixes) |-> Lower(exclude_prefixes[i])],
     exclude_prefix_single |-> Strip(Lower(exclude_prefix))]

(***************************************************************************)
(* TableDiscovery._keep_table_name                                         *)
(***************************************************************************)
keep_table_name(tbl_name) ==
    LET n == Lower(tbl_name)
    IN  IF td.exclude_prefixes # <<>>
           /\ \E i \in 1..Len(td.exclude_prefixes) : StartsWith(n, td.exclude_prefixes[i])
        THEN FALSE
        ELSE IF td.exclude_prefix_single # <<>> /\ StartsWith(n, td.exclude_prefix_single)
        THEN FALSE
        ELSE TRUE

\* t.split(".")[-1]
LastPart(t) == LET parts == Split(t) IN parts[Len(parts)]

\* [t for t in q if self._keep_table_name(t.split(".")[-1])]
RECURSIVE ApplyExcludes(_)
ApplyExcludes(q) ==
    IF q = <<>> THEN <<>>
    ELSE (IF keep_table_name(LastPart(Head(q))) THEN <<Head(q)>> ELSE <<>>)
             \o ApplyExcludes(Tail(q))

(***************************************************************************)
(* TableDiscovery.discover_pipeline_tables                                 *)
(***************************************************************************)
Min(a, b) == IF a < b THEN a ELSE b

\* page: up to page_size events taken from the iterator (StopIteration ends
\* the page early)
NextPage(events, it, page_size) ==
    SubSeq(events, it + 1, Min(it + page_size, Len(events)))

\* page_names: the truthy flow names of the page's events of the latest update
PageNames(page, latest_update) ==
    { page[i].flow_name : i \in {j \in 1..Len(page) :
            page[j].update_id = latest_update /\ page[j].flow_name # NoStr} }

EmptyAfter_NoReset(page_names, empty) ==
    IF page_names # {} THEN empty ELSE empty + 1

\* empty after the page: reset by a page with names, else one more
EmptyAfter(page_names, empty) == IF page_names # {} THEN 0 ELSE empty + 1

\* if empty >= empty_page_tolerance or not page: break
LoopBreaks(empty, empty_page_tolerance, page) ==
    empty >= empty_page_tolerance \/ page = <<>>

QualifyName_Uncaught(n, assume_schema) ==
    IF is_fully_qualified_table_name(n) THEN [raised |-> FALSE, val |-> n]
    ELSE IF assume_schema # NoStr THEN ensure_fully_qualified(n, assume_schema)
    ELSE [raised |-> FALSE, val |-> n]

\* the three branches of the qualification of one name; a failure of
\* ensure_fully_qualified is caught and the name kept
QualifyName(n, assume_schema) ==
    IF is_fully_qualified_table_name(n) THEN [raised |-> FALSE, val |-> n]
    ELSE IF assume_schema # NoStr
    THEN LET r == ensure_fully_qualified(n, assume_schema)
         IN  IF r.raised THEN [raised |-> FALSE, val |-> n] ELSE r
    ELSE [raised |-> FALSE, val |-> n]

\* out: one entry per name of sorted(names)
QualifyAll(names, assume_schema) ==
    LET srt == Sorted(names)
    IN  [i \in 1..Len(srt) |-> QualifyName(srt[i], assume_schema)]

\* the call up to the page loop: the pipeline lookup and the events request
DiscoverPipelineStart(pipeline_name, list_columns, assume_schema, page_size, empty_page_tolerance, streams) ==
    /\ p_pc = "idle"
    /\ p_args' = [pipeline_name |-> pipeline_name, list_columns |-> list_columns,
                  assume_schema |-> assume_schema, page_size |-> page_size,
                  empty_page_tolerance |-> empty_page_tolerance]
    /\ \E failure \in {"none", "list_pipelines", "list_pipeline_events"} :
         LET found == {p \in Pipelines : p.name = pipeline_name}
         IN  IF failure = "list_pipelines"
             THEN /\ p_pc' = "raised"
                  /\ UNCHANGED <<p_events, p_ret>>
             ELSE IF found = {} \/ (\A p \in found : p.latest_updates = <<>>)
             THEN /\ p_pc' = "done"
                  /\ p_ret' = <<>>
                  /\ UNCHANGED p_events
             ELSE IF failure = "list_pipeline_events"
             THEN /\ p_pc' = "raised"
                  /\ UNCHANGED <<p_events, p_ret>>
             ELSE /\ p_pc' = "paging"
                  /\ p_events' \in streams
                  /\ UNCHANGED p_ret
    /\ p_it' = 0
    /\ p_names' = {}
    /\ p_empty' = 0
    /\ p_hist' = <<>>
    /\ UNCHANGED p_out

\* one iteration of `while True`
PageStep ==
    /\ p_pc = "paging"
    /\ LET page == NextPage(p_events, p_it, p_args.page_size)
           page_names == PageNames(page, LatestUpdate)
           empty == EmptyAfter(page_names, p_empty)
       IN  /\ p_it' = p_it + Len(page)
           /\ p_names' = p_names \cup page_names
           /\ p_empty' = empty
           /\ p_hist' = Append(p_hist, [n |-> Len(page), named |-> page_names # {}])
           /\ p_pc' = IF LoopBreaks(empty, p_args.empty_page_tolerance, page)
                      THEN "collected" ELSE "paging"
    /\ UNCHANGED <<p_args, p_events, p_out, p_ret>>

\* after the loop: qualify, apply the excludes, return
DiscoverPipelineFinish ==
    /\ p_pc = "collected"
    /\ IF p_names = {}
       THEN /\ p_pc' = "done"
            /\ p_ret' = <<>>
            /\ UNCHANGED p_out
       ELSE LET q == QualifyAll(p_names, p_args.assume_schema)
                out == [i \in 1..Len(q) |-> q[i].val]
                kept == ApplyExcludes(out)
            IN  IF \E i \in 1..Len(q) : q[i].raised
                THEN /\ p_pc' = "raised"
                     /\ UNCHANGED <<p_out, p_ret>>
                ELSE /\ p_pc' = "done"
                     /\ p_out' = out
                     /\ p_ret' = IF p_args.list_columns THEN DictKeys(kept) ELSE kept
    /\ UNCHANGED <<p_args, p_events, p_it, p_names, p_empty, p_hist>>

PipelineIdle ==
    /\ p_pc = "idle"
    /\ p_args = [pipeline_name |-> NoStr, list_columns |-> FALSE,
                 assume_schema |-> NoStr, page_size |-> 0, empty_page_tolerance |-> 0]
    /\ p_events = <<>>
    /\ p_it = 0
    /\ p_names = {}
    /\ p_empty = 0
    /\ p_hist = <<>>
    /\ p_out = <<>>
    /\ p_ret = <<>>

(***************************************************************************)
(* The Unity Catalog the SDK client lists                                  *)
(***************************************************************************)
\* catalogs.list(): one catalog, "c"
Catalogs == { <<"c">> }

\* schemas.list(catalog_name): "c" has the schemas "s" and "m"
SchemasOf(catalog) == IF catalog = <<"c">> THEN << <<"s">>, <<"m">> >> ELSE <<>>

\* the TableInfo objects tables.list() may yield: "t", "Tm", the view "tx",
\* and an entry without a name
InfoPool ==
    { [name |-> <<"t">>, table_type |-> "MANAGED"],
      [name |-> <<"T", "m">>, table_type |-> "MANAGED"],
      [name |-> <<"t", "x">>, table_type |-> "VIEW"],
      [name |-> NoStr, table_type |-> "MANAGED"] }

\* a response of tables.list(): it raises (a permission error, another
\* error) or yields TableInfo objects, possibly one of them twice
ListResponses ==
    { [error |-> e, infos |-> <<>>] : e \in {"permission", "other"} }
        \cup { [error |-> "none", infos |-> q] : q \in SeqsUpTo(InfoPool, MaxTables) }

FewListResponses ==
    { [error |-> e, infos |-> <<>>] : e \in {"permission", "other"} }
        \cup { [error |-> "none", infos |-> q] : q \in SeqsUpTo({[name |-> <<"t">>, table_type |-> "MANAGED"]}, 1) }

\* the responses of tables.list() for the schemas "s" and "m"
UCResponses == [s : ListResponses, m : FewListResponses]

ResponseFor(resps, schema) == IF schema = <<"s">> THEN resps.s ELSE resps.m

(***************************************************************************)
(* TableDiscovery._list_tables_for_schema                                  *)
(***************************************************************************)
RECURSIVE KeptTables(_, _, _)
KeptTables(infos, catalog, schema) ==
    IF infos = <<>> THEN <<>>
    ELSE LET t == Head(infos)
             rest == KeptTables(Tail(infos), catalog, schema)
         IN  IF t.name = NoStr THEN rest
             ELSE IF ~td.include_views /\ is_view(t.table_type) THEN rest
             ELSE IF ~keep_table_name(t.name) THEN rest
             ELSE <<qualify_table_name(catalog, schema, t.name)>> \o rest

\* [raised, out]
list_tables_for_schema(resp, catalog, schema) ==
    IF resp.error = "permission" THEN [raised |-> FALSE, out |-> <<>>]
    ELSE IF resp.error = "other" THEN [raised |-> TRUE, out |-> <<>>]
    ELSE [raised |-> FALSE, out |-> KeptTables(resp.infos, catalog, schema)]

(***************************************************************************)
(* TableDiscovery.discover_catalog_tables, discover_schema_tables,         *)
(* discover_tables.  Column maps are not modelled: a dict payload is the   *)
(* list of its keys, in insertion order.                                   *)
(***************************************************************************)
\* all_tables after the loop over the schemas: a schema whose listing raises
\* is skipped
RECURSIVE ExtendAll(_, _, _)
ExtendAll(schemas, catalog, resps) ==
    IF schemas = <<>> THEN <<>>
    ELSE LET r == list_tables_for_schema(ResponseFor(resps, Head(schemas)),
                                         catalog, Head(schemas))
         IN  (IF r.raised THEN <<>> ELSE r.out)
                 \o ExtendAll(Tail(schemas), catalog, resps)

\* [exc, ret]
discover_catalog_tables(catalog, list_columns, resps) ==
    IF catalog \notin Catalogs THEN [exc |-> "RuntimeError", ret |-> <<>>]
    ELSE IF SchemasOf(catalog) = <<>> THEN [exc |-> "none", ret |-> <<>>]
    ELSE LET all_tables == Sorted(Range(ExtendAll(SchemasOf(catalog), catalog, resps)))
         IN  [exc |-> "none", ret |-> all_tables]

\* [exc, ret]
discover_schema_tables(schema_fqn, list_columns, resps) ==
    LET cs == parse_catalog_schema_fqn(schema_fqn)
    IN  IF cs.raised THEN [exc |-> "ValueError", ret |-> <<>>]
        ELSE IF cs.sch \notin Range(SchemasOf(cs.cat))
        THEN [exc |-> "RuntimeError", ret |-> <<>>]
        ELSE LET r == list_tables_for_schema(ResponseFor(resps, cs.sch), cs.cat, cs.sch)
             IN  IF r.raised THEN [exc |-> "Exception", ret |-> <<>>]
                 ELSE [exc |-> "none",
                       ret |-> IF list_columns THEN DictKeys(r.out) ELSE r.out]

RECURSIVE KeptFqns(_)
KeptFqns(tables) ==
    IF tables = <<>> THEN <<>>
    ELSE (IF is_fully_qualified_table_name(Head(tables))
             /\ keep_table_name(LastPart(Head(tables)))
          THEN <<Head(tables)>> ELSE <<>>) \o KeptFqns(Tail(tables))

discover_tables(tables, list_columns) ==
    IF list_columns THEN DictKeys(KeptFqns(tables)) ELSE KeptFqns(tables)

(***************************************************************************)
(* TableDiscovery._build_from_source                                       *)
(***************************************************************************)
Unqualified == << "<unqualified>" >>

SchemaKey(name) ==
    IF is_fully_qualified_table_name(name) THEN Split(name)[2] ELSE Unqualified

TableKey(name) ==
    IF is_fully_qualified_table_name(name) THEN Split(name)[3] ELSE name

\* the nested dict { schema -> { table -> {} } } as a list of
\* [schema, tables], schemas and tables sorted
Grouped(payload) ==
    LET schemas == Sorted({SchemaKey(n) : n \in Range(payload)})
    IN  [i \in 1..Len(schemas) |->
            [schema |-> schemas[i],
             tables |-> Sorted({TableKey(n) : n \in {m \in Range(payload) :
                                    SchemaKey(m) = schemas[i]}})]]

SourceMode_DotsAsTable(source, is_pipeline) ==
    IF is_pipeline
    THEN IF DotCount(source) > 0 THEN "ValueError" ELSE "pipeline"
    ELSE IF DotCount(source) >= 2 THEN "table"
    ELSE IF DotCount(source) = 1 THEN "schema"
    ELSE "catalog"

\* the branch _build_from_source takes
SourceMode(source, is_pipeline) ==
    IF is_pipeline
    THEN IF DotCount(source) > 0 THEN "ValueError" ELSE "pipeline"
    ELSE IF DotCount(source) = 2
         THEN IF ~is_fully_qualified_table_name(source) THEN "ValueError" ELSE "table"
    ELSE IF DotCount(source) = 1 THEN "schema"
    ELSE IF DotCount(source) = 0 THEN "catalog"
    ELSE "ValueError"

\* the branches that are not the pipeline walk: [exc, walks, built]
BuildFromSource(source, list_columns, resps) ==
    LET mode == SourceMode(source, FALSE)
        none == [root_label |-> source, nested |-> <<>>, payload |-> <<>>]
    IN  IF mode = "table"
        THEN [exc |-> "none", walks |-> <<"table">>,
              built |-> [root_label |-> source,
                         nested |-> << [schema |-> Split(source)[2],
                                        tables |-> <<Split(source)[3]>>] >>,
                         payload |-> <<source>>]]
        ELSE IF mode = "schema"
        THEN LET r == discover_schema_tables(source, list_columns, resps)
             IN  IF r.exc # "none"
                 THEN [exc |-> r.exc, walks |-> <<"schema">>, built |-> none]
                 ELSE [exc |-> "none", walks |-> <<"schema">>,
                       built |-> [root_label |-> source,
                                  nested |-> << [schema |-> Split(source)[2],
                                                 tables |-> Sorted({Split(f)[3] : f \in Range(r.ret)})] >>,
                                  payload |-> r.ret]]
        ELSE IF mode = "catalog"
        THEN LET r == discover_catalog_tables(source, list_columns, resps)
             IN  IF r.exc # "none"
                 THEN [exc |-> r.exc, walks |-> <<"catalog">>, built |-> none]
                 ELSE [exc |-> "none", walks |-> <<"catalog">>,
                       built |-> [root_label |-> source, nested |-> Grouped(r.ret),
                                  payload |-> r.ret]]
        ELSE [exc |-> "ValueError", walks |-> <<>>, built |-> none]

(***************************************************************************)
(* TableDiscovery._render_ascii (spacious=True, the default; the column    *)
(* lines of a table are not modelled).  A line is its prefix (a list of    *)
(* the guides "|   " and "    "), its branch and its label.                *)
(***************************************************************************)
StrLessEq(a, b) == a = b \/ StrLess(a, b)

\* sorted(keys, key=str.lower): a stable sort
RECURSIVE SortedByLower(_)
SortedByLower(q) ==
    IF q = <<>> THEN <<>>
    ELSE LET front == SortedByLower(SubSeq(q, 1, Len(q) - 1))
             x == q[Len(q)]
             k == Cardinality({i \in 1..Len(front) :
                                 StrLessEq(Lower(front[i]), Lower(x))})
         IN  SubSeq(front, 1, k) \o <<x>> \o SubSeq(front, k + 1, Len(front))

Branch(is_last) == IF is_last THEN "\\-- " ELSE "|-- "

Guide(is_last) == IF is_last THEN "    " ELSE "|   "

\* walk(child, next_prefix) of a schema's tables: each table is a leaf
RECURSIVE WalkTables(_, _, _)
WalkTables(tables, i, prefix) ==
    IF i > Len(tables) THEN <<>>
    ELSE LET is_last == i = Len(tables)
         IN  << [prefix |-> prefix, branch |-> Branch(is_last), label |-> tables[i]] >>
                 \o (IF ~is_last
                     THEN << [prefix |-> prefix, branch |-> "|", label |-> NoStr] >>
                     ELSE <<>>)
                 \o WalkTables(tables, i + 1, prefix)

TablesOfSchema(nested, schema) ==
    LET e == CHOOSE x \in Range(nested) : x.schema = schema IN e.tables

\* walk(nested): a schema with tables is labelled "schema/", one without is
\* a leaf
RECURSIVE WalkSchemas(_, _, _)
WalkSchemas(nested, keys, i) ==
    IF i > Len(keys) THEN <<>>
    ELSE LET is_last == i = Len(keys)
             tables == TablesOfSchema(nested, keys[i])
             label == IF tables = <<>> THEN keys[i] ELSE keys[i] \o <<"/">>
         IN  << [prefix |-> <<>>, branch |-> Branch(is_last), label |-> label] >>
                 \o WalkTables(SortedByLower(tables), 1, <<Guide(is_last)>>)
                 \o (IF ~is_last
                     THEN << [prefix |-> <<>>, branch |-> "|", label |-> NoStr] >>
                     ELSE <<>>)
                 \o WalkSchemas(nested, keys, i + 1)

render_ascii(root_label, nested) ==
    << [prefix |-> <<>>, branch |-> "", label |-> root_label \o <<"/">>] >>
        \o WalkSchemas(nested,
                       SortedByLower([i \in 1..Len(nested) |-> nested[i].schema]), 1)

(***************************************************************************)
(* TableDiscovery._normalize_txt_name, _write_text                         *)
(***************************************************************************)
\* save_tree is a bool or a str
SaveTreeValues ==
    { [is_bool |-> TRUE, b |-> FALSE, s |-> NoStr],
      [is_bool |-> TRUE, b |-> TRUE, s |-> NoStr],
      [is_bool |-> FALSE, b |-> FALSE, s |-> NoStr],
      [is_bool |-> FALSE, b |-> FALSE, s |-> <<"t", ".", "T", "x", "t">>],
      [is_bool |-> FALSE, b |-> FALSE, s |-> <<" ", "t", ".", "x">>] }

Truthy_BoolOnly(v) == v.is_bool /\ v.b

\* bool(save_tree)
Truthy(v) == IF v.is_bool THEN v.b ELSE v.s # NoStr

TreeTxt == <<"t", "r", "e", "e", ".", "t", "x", "t">>

\* Path.suffix and Path.stem of a file name
PathSuffix(name) ==
    LET parts == Split(name)
    IN  IF Len(parts) = 1 THEN NoStr ELSE <<".">> \o parts[Len(parts)]

PathStem(name) == SubSeq(name, 1, Len(name) - Len(PathSuffix(name)))

normalize_txt_name(name) ==
    IF (name.is_bool /\ name.b) \/ ~Truthy(name) THEN TreeTxt
    ELSE LET pname == Strip(name.s)
         IN  IF Lower(PathSuffix(pname)) = <<".", "t", "x", "t">> THEN pname
             ELSE PathStem(pname) \o <<".", "t", "x", "t">>

\* output_dir is None (the working directory "w") or "dbfs:"
Cwd == <<"w">>

\* out_dir / fname
OutPath(output_dir, fname) ==
    (IF output_dir # NoStr THEN output_dir ELSE Cwd) \o <<"/">> \o fname

\* [raised, path]: the write fails when dbutils is not defined (a dbfs:
\* path) or the file system refuses it
write_text(path, io) ==
    IF StartsWith(path, <<"d", "b", "f", "s", ":">>)
    THEN IF io = "ok" THEN [raised |-> FALSE, exc |-> "none"]
         ELSE [raised |-> TRUE, exc |-> "RuntimeError"]
    ELSE IF io = "ok" THEN [raised |-> FALSE, exc |-> "none"]
         ELSE [raised |-> TRUE, exc |-> "OSError"]

(***************************************************************************)
(* TableDiscovery.tree                                                     *)
(***************************************************************************)
PageSizeDefault == 250
EmptyPageToleranceDefault == 2

NoBuilt == [root_label |-> NoStr, nested |-> <<>>, payload |-> <<>>]
NoResult == [kind |-> "none", value |-> <<>>, saved |-> <<>>]

TreeIdle ==
    /\ t_pc = "idle"
    /\ t_args = [op |-> "none", source |-> NoStr, is_pipeline |-> FALSE,
                 list_columns |-> FALSE, construct_tree |-> FALSE,
                 save_tree |-> [is_bool |-> TRUE, b |-> FALSE, s |-> NoStr],
                 output_dir |-> NoStr, assume_schema |-> NoStr, tables |-> <<>>]
    /\ t_walks = <<>>
    /\ t_built = NoBuilt
    /\ t_result = NoResult
    /\ t_exc = "none"
    /\ fs = {}

TreeSources ==
    { <<"c">>, <<"x">>, <<"c", ".", "s">>, <<"c", ".", "x">>,
      <<"c", ".", "s", ".", "t">>, <<"c", ".", "s", ".", "T", "m">>,
      <<"c", ".", "s", ".", "t", ".", "x">>, <<"p">>, <<"p", ".", "x">> }

TreeEventStreams == SeqsUpTo(EventPool, MaxTreeEvents)

\* the (save_tree, output_dir) pairs tree is called with
SaveArgs ==
    { [save_tree |-> v, output_dir |-> NoStr] : v \in SaveTreeValues }
        \cup { [save_tree |-> v, output_dir |-> <<"d", "b", "f", "s", ":">>] :
                 v \in {w \in SaveTreeValues : Truthy(w) /\ ~w.is_bool} }

\* the responses that matter to a source: none to a single table, those of
\* schema "s" to the schema walk
ResponsesFor(source) ==
    IF DotCount(source) = 1 THEN [s : ListResponses, m : {[error |-> "none", infos |-> <<>>]}]
    ELSE IF DotCount(source) = 0 /\ source \in Catalogs THEN UCResponses
    ELSE [s : {[error |-> "none", infos |-> <<>>]}, m : {[error |-> "none", infos |-> <<>>]}]

\* tree(...) up to the return of _build_from_source, or up to the page loop
\* of the pipeline walk; assume_schema is passed with is_pipeline only
TreeCall ==
    /\ t_pc = "idle"
    /\ \E source \in TreeSources, is_pipeline \in BOOLEAN, list_columns \in BOOLEAN,
          construct_tree \in BOOLEAN, sv \in SaveArgs,
          assume_schema \in AssumeSchemas :
         /\ (~is_pipeline => assume_schema = NoStr)
         /\ t_args' = [op |-> "tree", source |-> source, is_pipeline |-> is_pipeline,
                       list_columns |-> list_columns, construct_tree |-> construct_tree,
                       save_tree |-> sv.save_tree, output_dir |-> sv.output_dir,
                       assume_schema |-> assume_schema, tables |-> <<>>]
         /\ IF SourceMode(source, is_pipeline) = "pipeline"
            THEN /\ DiscoverPipelineStart(source, list_columns, assume_schema,
                                          PageSizeDefault, EmptyPageToleranceDefault,
                                          TreeEventStreams)
                 /\ t_pc' = "pipeline"
                 /\ t_walks' = <<"pipeline">>
                 /\ UNCHANGED <<t_built, t_exc>>
            ELSE IF is_pipeline
            THEN /\ t_pc' = "raised"
                 /\ t_exc' = "ValueError"
                 /\ UNCHANGED <<t_walks, t_built, p_vars>>
            ELSE \E resps \in ResponsesFor(source) :
                   LET r == BuildFromSource(source, list_columns, resps)
                   IN  /\ t_pc' = IF r.exc = "none" THEN "built" ELSE "raised"
                       /\ t_exc' = r.exc
                       /\ t_walks' = r.walks
                       /\ t_built' = r.built
                       /\ UNCHANGED p_vars
    /\ UNCHANGED <<td, t_result, fs, not_discovery>>

TreePageStep ==
    t_pc = "pipeline" /\ PageStep /\ UNCHANGED <<td, t_vars, not_discovery>>

TreePipelineFinish ==
    /\ t_pc = "pipeline"
    /\ DiscoverPipelineFinish
    /\ UNCHANGED <<td, t_vars, not_discovery>>

\* _build_from_source after discover_pipeline_tables returned or raised
TreePipelineBuilt ==
    /\ t_pc = "pipeline"
    /\ p_pc \in {"done", "raised"}
    /\ IF p_pc = "raised"
       THEN /\ t_pc' = "raised"
            /\ t_exc' = "Exception"
            /\ UNCHANGED t_built
       ELSE /\ t_pc' = "built"
            /\ t_built' = [root_label |-> t_args.source, nested |-> Grouped(p_ret),
                           payload |-> p_ret]
            /\ UNCHANGED t_exc
    /\ UNCHANGED <<td, p_vars, t_args, t_walks, t_result, fs, not_discovery>>

TreeReturnsPayload_Never(construct_tree) == FALSE

\* if not construct_tree: return payload, None
TreeReturnsPayload(construct_tree) == ~construct_tree

\* tree(...) after _build_from_source: render, print, save, return
TreeFinish ==
    /\ t_pc = "built"
    /\ IF TreeReturnsPayload(t_args.construct_tree)
       THEN /\ t_pc' = "returned"
            /\ t_result' = [kind |-> "payload", value |-> t_built.payload, saved |-> <<>>]
            /\ UNCHANGED <<t_exc, fs>>
       ELSE LET text == render_ascii(t_built.root_label, t_built.nested)
            IN  IF Truthy(t_args.save_tree)
                THEN LET path == OutPath(t_args.output_dir,
                                         normalize_txt_name(t_args.save_tree))
                     IN  \E io \in {"ok", "error"} :
                           LET w == write_text(path, io)
                           IN  IF w.raised
                               THEN /\ t_pc' = "raised"
                                    /\ t_exc' = w.exc
                                    /\ UNCHANGED <<t_result, fs>>
                               ELSE /\ t_pc' = "returned"
                                    /\ fs' = fs \cup {path}
                                    /\ t_result' = [kind |-> "text", value |-> text,
                                                    saved |-> <<path>>]
                                    /\ UNCHANGED t_exc
                ELSE /\ t_pc' = "returned"
                     /\ t_result' = [kind |-> "text", value |-> text, saved |-> <<>>]
                     /\ UNCHANGED <<t_exc, fs>>
    /\ UNCHANGED <<td, p_vars, t_args, t_walks, t_built, not_discovery>>

\* the identifiers discover_tables is called with
TableArgs ==
    SeqsUpTo({ <<"t">>, <<"c", ".", "s", ".", "t">>, <<"c", ".", "s", ".", "T", "m">> },
             MaxTables)

CallDiscoverTables ==
    /\ t_pc = "idle"
    /\ \E tables \in TableArgs, list_columns \in BOOLEAN :
         /\ t_args' = [t_args EXCEPT !.op = "discover_tables", !.tables = tables,
                                     !.list_columns = list_columns]
         /\ t_result' = [kind |-> "payload", value |-> discover_tables(tables, list_columns),
                         saved |-> <<>>]
    /\ t_pc' = "returned"
    /\ UNCHANGED <<td, p_vars, t_walks, t_built, t_exc, fs, not_discovery>>

InitTree ==
    /\ td \in {TableDiscoveryInit(v, a.exclude_prefixes, a.exclude_prefix) :
                   v \in BOOLEAN, a \in ExcludeArgs}
    /\ PipelineIdle
    /\ TreeIdle
    /\ RetryIdle
    /\ MergeIdle
    /\ RunsIdle
    /\ SparkIdle

NextTree ==
    \/ TreeCall
    \/ TreePageStep
    \/ TreePipelineFinish
    \/ TreePipelineBuilt
    \/ TreeFinish
    \/ CallDiscoverTables

SpecTree == InitTree /\ [][NextTree]_vars

(***************************************************************************)
(* discover_pipeline_tables called directly                                *)
(***************************************************************************)
PipelineNames == { <<"p">>, <<"q">>, <<"x">> }

CallDiscoverPipeline ==
    /\ \E pipeline_name \in PipelineNames, list_columns \in BOOLEAN,
          assume_schema \in AssumeSchemas, page_size \in 1..MaxPageSize,
          empty_page_tolerance \in 1..MaxTolerance :
         DiscoverPipelineStart(pipeline_name, list_columns, assume_schema,
                               page_size, empty_page_tolerance, EventStreams)
    /\ UNCHANGED <<td, t_vars, not_discovery>>

PipelinePageStep == PageStep /\ UNCHANGED <<td, t_vars, not_discovery>>

PipelineFinish ==
    DiscoverPipelineFinish /\ UNCHANGED <<td, t_vars, not_discovery>>

InitPipeline ==
    /\ td \in {TableDiscoveryInit(FALSE, a.exclude_prefixes, a.exclude_prefix) :
                   a \in ExcludeArgs}
    /\ PipelineIdle
    /\ TreeIdle
    /\ RetryIdle
    /\ MergeIdle
    /\ RunsIdle
    /\ SparkIdle

NextPipeline == CallDiscoverPipeline \/ PipelinePageStep \/ PipelineFinish

SpecPipeline == InitPipeline /\ [][NextPipeline]_vars


(***************************************************************************)
(* Properties of discover_pipeline_tables                                  *)
(***************************************************************************)
\* the number of pages without names at the end of the page history
RECURSIVE TrailingUnnamed(_)
TrailingUnnamed(h) ==
    IF h = <<>> \/ h[Len(h)].named THEN 0
    ELSE 1 + TrailingUnnamed(SubSeq(h, 1, Len(h) - 1))

\* page k is empty, or is the tolerance-th consecutive page without names
StopsAt(h, k, tolerance) ==
    h[k].n = 0 \/ TrailingUnnamed(SubSeq(h, 1, k)) = tolerance

\* C1: the page loop of discover_pipeline_tables terminates (it builds at
\* most one page more than the stream has events, and a further iteration
\* can always run while it has not stopped), and it stops exactly at the
\* end of the first page that is empty or that is the
\* empty_page_tolerance-th consecutive page with no flow name of the latest
\* update; `empty` counts the pages without names since the last page with
\* one (a page with a name resets it to 0).
C1_PageLoopTerminates ==
    (p_pc = "paging" \/ p_hist # <<>>) =>
        /\ (p_pc = "paging" => p_empty = TrailingUnnamed(p_hist))
        /\ (p_pc # "paging" => p_hist # <<>>)
        /\ \A k \in 1..Len(p_hist) :
              StopsAt(p_hist, k, p_args.empty_page_tolerance)
                  <=> (k = Len(p_hist) /\ p_pc # "paging")
        /\ Len(p_hist) <= Len(p_events) + 1
        /\ (p_pc = "paging" => ENABLED PageStep)

\* the loop was stopped by the tolerance on a non-empty third page, after a
\* page with names
C1_Witness ==
    /\ p_pc = "collected"
    /\ Len(p_hist) = 3
    /\ p_hist[1].named
    /\ p_hist[3].n > 0
    /\ p_args.empty_page_tolerance = 2

NoDuplicates(q) == \A i, j \in 1..Len(q) : q[i] = q[j] => i = j

\* C2 (discover_pipeline_tables): the list returned holds no table
\* identifier more than once.
C2_PipelineListDeduplicated ==
    (p_pc = "done" /\ ~p_args.list_columns) => NoDuplicates(p_ret)

\* what the claim says a collected name n becomes under assume_schema a
C5_Expected(n, a) ==
    IF DotCount(n) = 2 THEN n
    ELSE IF a # NoStr /\ DotCount(a) = 1 THEN a \o <<".">> \o n
    ELSE n

\* C5: a collected name with exactly two dots is kept as it is; any other
\* name becomes <assume_schema>.<name> when assume_schema is a
\* catalog.schema, and is kept as it is otherwise; qualifying never makes
\* the call raise; the names returned are among the qualified ones.
C5_TriStateQualification ==
    /\ (p_pc = "raised" => p_hist = <<>>)
    /\ (p_pc = "done" /\ p_names # {}) =>
          LET srt == Sorted(p_names)
          IN  /\ Len(p_out) = Len(srt)
              /\ \A i \in 1..Len(srt) :
                    p_out[i] = C5_Expected(srt[i], p_args.assume_schema)
              /\ Range(p_ret) \subseteq Range(p_out)

\* a one-dot name was qualified, a two-dot name was kept, in one call
C5_Witness ==
    /\ p_pc = "done"
    /\ p_args.assume_schema = <<"c", ".", "s">>
    /\ {<<"s", ".", "T", "m">>, <<"c", ".", "s", ".", "t">>} \subseteq p_names
    /\ <<"c", ".", "s", ".", "s", ".", "T", "m">> \in Range(p_ret)
    /\ <<"c", ".", "s", ".", "t">> \in Range(p_ret)

\* the bare name was kept because assume_schema is not a catalog.schema
C5_WitnessInvalid ==
    /\ p_pc = "done"
    /\ p_args.assume_schema = <<"c">>
    /\ p_ret = << <<"t">> >>


(***************************************************************************)
(* Properties of tree, _build_from_source and discover_tables              *)
(***************************************************************************)
\* C2 (discover_catalog_tables, list_columns=False): the list returned
\* holds no table identifier more than once.
C2_CatalogListDeduplicated ==
    (t_pc \in {"built", "returned"} /\ t_walks = <<"catalog">> /\ ~t_args.list_columns)
        => NoDuplicates(t_built.payload)

\* the table-name part n starts, ignoring case, with an exclusion prefix
C3_Excluded(n) ==
    \/ \E i \in 1..Len(td.exclude_prefixes) :
          StartsWith(Lower(n), td.exclude_prefixes[i])
    \/ td.exclude_prefix_single # NoStr
          /\ StartsWith(Lower(n), td.exclude_prefix_single)

\* C3: in every source mode of tree/_build_from_source and in
\* discover_tables, no table of the payload has a table-name part that
\* starts, ignoring case, with an exclusion prefix.
C3_ExclusionInEveryPath ==
    /\ (t_pc \in {"built", "returned"} /\ t_args.op = "tree")
          => \A x \in Range(t_built.payload) : ~C3_Excluded(LastPart(x))
    /\ (t_pc = "returned" /\ t_args.op = "discover_tables")
          => \A x \in Range(t_result.value) : ~C3_Excluded(LastPart(x))

\* C3 without the single-table mode: the catalog, schema and pipeline walks
\* and discover_tables return no excluded table.
C3_ExclusionOutsideTableMode ==
    /\ (t_pc \in {"built", "returned"} /\ t_args.op = "tree" /\ t_walks # <<"table">>)
          => \A x \in Range(t_built.payload) : ~C3_Excluded(LastPart(x))
    /\ (t_pc = "returned" /\ t_args.op = "discover_tables")
          => \A x \in Range(t_result.value) : ~C3_Excluded(LastPart(x))

\* the mode the claim gives a source
C4_Expected(source, is_pipeline) ==
    IF is_pipeline
    THEN IF "." \in Range(source) THEN "ValueError" ELSE "pipeline"
    ELSE CASE Len(Split(source)) = 1 -> "catalog"
           [] Len(Split(source)) = 2 -> "schema"
           [] Len(Split(source)) = 3 -> "table"
           [] OTHER -> "ValueError"

\* C4: _build_from_source runs the catalog, schema, single-table or
\* pipeline walk according to is_pipeline and the number of dots of source,
\* exactly that one walk, and raises ValueError, having run no walk, for a
\* pipeline name with a dot or a source with three or more dots.
C4_SourceModeInference ==
    (t_args.op = "tree" /\ t_pc # "idle") =>
        LET expected == C4_Expected(t_args.source, t_args.is_pipeline)
        IN  /\ (t_exc = "ValueError" => t_walks = <<>>)
            /\ IF expected = "ValueError"
               THEN t_pc = "raised" /\ t_exc = "ValueError" /\ t_walks = <<>>
               ELSE t_walks = <<expected>>

\* a one-dot source was walked as a schema and the call returned
C4_Witness ==
    /\ t_pc = "returned"
    /\ t_args.source = <<"c", ".", "s">>
    /\ t_walks = <<"schema">>
    /\ t_built.payload # <<>>

\* save_tree is truthy: True or a non-empty str
C6_SaveRequested(v) == (v.is_bool /\ v.b) \/ (~v.is_bool /\ Len(v.s) > 0)

\* C6: tree writes nothing but the text file: with construct_tree=False it
\* returns (payload, None) and writes no file; with construct_tree=True it
\* returns (text, saved), has written a file exactly when save_tree is
\* truthy, and saved is None exactly when no file was written.
C6_TreePersistsOnlyTextFile ==
    /\ fs # {} => (t_args.op = "tree" /\ t_args.construct_tree
                     /\ C6_SaveRequested(t_args.save_tree))
    /\ Cardinality(fs) <= 1
    /\ (t_pc = "returned" /\ t_args.op = "tree") =>
          IF ~t_args.construct_tree
          THEN /\ t_result.kind = "payload"
               /\ t_result.value = t_built.payload
               /\ t_result.saved = <<>>
               /\ fs = {}
          ELSE /\ t_result.kind = "text"
               /\ (fs # {} <=> C6_SaveRequested(t_args.save_tree))
               /\ (t_result.saved = <<>> <=> fs = {})
               /\ Range(t_result.saved) = fs

\* a tree was rendered and saved under a name given as a str
C6_Witness ==
    /\ t_pc = "returned"
    /\ t_args.construct_tree
    /\ ~t_args.save_tree.is_bool
    /\ fs = { <<"w", "/", "t", ".", "t", "x", "t">> }
    /\ t_result.saved # <<>>

\* construct_tree=False with save_tree=True: the payload came back, no file
C6_WitnessNoTree ==
    /\ t_pc = "returned"
    /\ t_args.op = "tree"
    /\ ~t_args.construct_tree
    /\ t_args.save_tree.is_bool /\ t_args.save_tree.b
    /\ t_built.payload # <<>>


(***************************************************************************)
(* RetryConfig (src/utils/retryConfig.py)                                  *)
(***************************************************************************)
\* the base class of an exception class
ExcParent(t) ==
    CASE t = "FileNotFoundError" -> "OSError"
      [] t = "OSError" -> "Exception"
      [] t = "KeyError" -> "Exception"
      [] t = "Exception" -> "BaseException"
      [] t = "KeyboardInterrupt" -> "BaseException"
      [] OTHER -> "object"

\* issubclass(t, u)
RECURSIVE IsSubclass(_, _)
IsSubclass(t, u) ==
    t = u \/ (t \notin {"BaseException", "object"} /\ IsSubclass(ExcParent(t), u))

\* the exceptions argument: a class or a tuple of classes
ExceptionsArgs ==
    { [is_tuple |-> FALSE, types |-> <<"Exception">>],
      [is_tuple |-> TRUE, types |-> <<"OSError">>],
      [is_tuple |-> TRUE, types |-> <<"OSError", "KeyError">>] }

\* what an invocation of the wrapped function does
FuncOutcomes ==
    { [ev |-> "return", type |-> "none", dur |-> 0] }
        \cup { [ev |-> "raise", type |-> t, dur |-> 0] :
                 t \in {"FileNotFoundError", "KeyError", "KeyboardInterrupt"} }

\* RetryConfig.__init__
RetryConfigInit(max_attempts, backoff, exceptions) ==
    [max_attempts |-> max_attempts, backoff |-> backoff,
     exceptions |-> IF exceptions.is_tuple THEN exceptions.types
                    ELSE <<exceptions.types[1]>>]

Caught_Everything(type, exceptions) == TRUE

\* except self.exceptions
Caught(type, exceptions) ==
    \E i \in 1..Len(exceptions) : IsSubclass(type, exceptions[i])

AttemptsExhausted_OffByOne(attempt, max_attempts) == attempt > max_attempts

\* if attempt >= self.max_attempts: raise
AttemptsExhausted(attempt, max_attempts) == attempt >= max_attempts

SleepTime_Linear(backoff, attempt) == backoff * attempt

\* self.backoff * (2 ** (attempt - 1))
SleepTime(backoff, attempt) == backoff * (2 ^ (attempt - 1))

\* the invocations among the events of a trace
RECURSIVE Calls(_)
Calls(tr) ==
    IF tr = <<>> THEN <<>>
    ELSE (IF Head(tr).ev = "sleep" THEN <<>> ELSE <<Head(tr)>>) \o Calls(Tail(tr))

\* the decorated function is called
RetryCall ==
    /\ r_pc = "idle"
    /\ \E max_attempts \in 1..MaxAttempts, backoff \in 1..MaxBackoff,
          exceptions \in ExceptionsArgs :
         r_cfg' = RetryConfigInit(max_attempts, backoff, exceptions)
    /\ r_pc' = "running"
    /\ r_attempt' = 0
    /\ UNCHANGED <<r_trace, r_result, not_retry>>

\* one iteration of `while True`: the invocation, and the handler with its
\* sleep when the invocation raises a listed exception
RetryInvoke ==
    /\ r_pc = "running"
    /\ \E o \in FuncOutcomes :
         LET k == Len(Calls(r_trace)) + 1
         IN  IF o.ev = "return"
             THEN /\ r_trace' = Append(r_trace, o)
                  /\ r_pc' = "returned"
                  /\ r_result' = [kind |-> "value", value |-> k, exc |-> "none"]
                  /\ UNCHANGED r_attempt
             ELSE IF Caught(o.type, r_cfg.exceptions)
             THEN LET attempt == r_attempt + 1
                  IN  /\ r_attempt' = attempt
                      /\ IF AttemptsExhausted(attempt, r_cfg.max_attempts)
                         THEN /\ r_trace' = Append(r_trace, o)
                              /\ r_pc' = "raised"
                              /\ r_result' = [kind |-> "exc", value |-> k, exc |-> o.type]
                         ELSE /\ r_trace' = r_trace \o
                                   << o, [ev |-> "sleep", type |-> "none",
                                          dur |-> SleepTime(r_cfg.backoff, attempt)] >>
                              /\ UNCHANGED <<r_pc, r_result>>
             ELSE /\ r_trace' = Append(r_trace, o)
                  /\ r_pc' = "raised"
                  /\ r_result' = [kind |-> "exc", value |-> k, exc |-> o.type]
                  /\ UNCHANGED r_attempt
    /\ UNCHANGED <<r_cfg, not_retry>>

InitRetry ==
    /\ td = TableDiscoveryInit(FALSE, <<>>, NoStr)
    /\ PipelineIdle
    /\ TreeIdle
    /\ RetryIdle
    /\ MergeIdle
    /\ RunsIdle
    /\ SparkIdle

NextRetry == RetryCall \/ RetryInvoke

SpecRetry == InitRetry /\ [][NextRetry]_vars

(***************************************************************************)
(* Properties of RetryConfig                                               *)
(***************************************************************************)
\* the exception class is among the configured exceptions
C7_Listed(type) == \E e \in Range(r_cfg.exceptions) : IsSubclass(type, e)

\* C7: for max_attempts >= 1 the wrapper invokes the function at most
\* max_attempts times; every invocation but the last raised a listed
\* exception; it returns the value of the first invocation that does not
\* raise and invokes nothing afterwards; when max_attempts invocations in a
\* row raise a listed exception it re-raises the last one's exception,
\* after exactly max_attempts invocations.
C7_AtMostMaxAttempts ==
    r_pc # "idle" =>
        LET calls == Calls(r_trace)
            n == Len(calls)
        IN  /\ n <= r_cfg.max_attempts
            /\ \A i \in 1..(n - 1) : calls[i].ev = "raise" /\ C7_Listed(calls[i].type)
            /\ r_pc = "returned" =>
                  /\ n >= 1 /\ calls[n].ev = "return"
                  /\ r_result = [kind |-> "value", value |-> n, exc |-> "none"]
            /\ r_pc = "raised" =>
                  /\ n >= 1 /\ calls[n].ev = "raise"
                  /\ r_result = [kind |-> "exc", value |-> n, exc |-> calls[n].type]
                  /\ C7_Listed(calls[n].type) => n = r_cfg.max_attempts
            /\ r_pc = "running" =>
                  /\ n < r_cfg.max_attempts
                  /\ n >= 1 => calls[n].ev = "raise"
            /\ r_pc \in {"returned", "raised"} => ~ENABLED RetryInvoke

\* max_attempts = 3 invocations raised a listed exception, the last one's
\* exception was re-raised
C7_Witness ==
    /\ r_pc = "raised"
    /\ r_cfg.max_attempts = 3
    /\ Len(Calls(r_trace)) = 3
    /\ r_result.exc = "KeyError"
    /\ r_trace[1].type = "FileNotFoundError"
    /\ C7_Listed("KeyError")

\* the number of sleeps among the first i events of the trace
SleepsUpTo(tr, i) == Cardinality({j \in 1..i : tr[j].ev = "sleep"})

RECURSIVE TotalSleep(_)
TotalSleep(tr) == IF tr = <<>> THEN 0 ELSE Head(tr).dur + TotalSleep(Tail(tr))

\* C8: every sleep directly follows a failed attempt and is followed by the
\* next invocation; the k-th sleep lasts backoff * 2^(k-1); each failed
\* attempt k < max_attempts is followed by exactly one sleep, the
\* max_attempts-th by none; a call that returns after n failures has slept
\* backoff * (2^n - 1) in total.
C8_ExponentialBackoff ==
    r_pc # "idle" =>
        LET tr == r_trace
            fails == Cardinality({j \in 1..Len(tr) : tr[j].ev = "raise"})
        IN  /\ \A i \in 1..Len(tr) : tr[i].ev = "sleep" =>
                  /\ i > 1 /\ tr[i - 1].ev = "raise" /\ C7_Listed(tr[i - 1].type)
                  /\ tr[i].dur = r_cfg.backoff * (2 ^ (SleepsUpTo(tr, i) - 1))
                  /\ SleepsUpTo(tr, i) = Cardinality({j \in 1..i : tr[j].ev = "raise"})
                  /\ SleepsUpTo(tr, i) <= r_cfg.max_attempts - 1
                  /\ IF i = Len(tr) THEN r_pc = "running" ELSE tr[i + 1].ev # "sleep"
            /\ \A i \in 1..Len(tr) :
                  (tr[i].ev = "raise" /\ C7_Listed(tr[i].type)
                      /\ Cardinality({j \in 1..i : tr[j].ev = "raise"}) < r_cfg.max_attempts)
                  => (i < Len(tr) /\ tr[i + 1].ev = "sleep")
            /\ r_pc \in {"returned", "raised"} => tr[Len(tr)].ev # "sleep"
            /\ r_pc = "returned" =>
                  /\ fails < r_cfg.max_attempts
                  /\ TotalSleep(tr) = r_cfg.backoff * ((2 ^ fails) - 1)

\* the function failed three times and then returned: sleeps of 2, 4 and 8
C8_Witness ==
    /\ r_pc = "returned"
    /\ r_cfg.backoff = 2
    /\ Len(Calls(r_trace)) = 4
    /\ TotalSleep(r_trace) = 14

\* C9: an exception whose class is not among the configured exceptions is
\* propagated at once: the invocation that raised it is the last event of
\* the call (no further invocation, no sleep), whatever preceded it.
C9_UnlistedPropagates ==
    r_pc # "idle" =>
        \A i \in 1..Len(r_trace) :
            (r_trace[i].ev = "raise" /\ ~C7_Listed(r_trace[i].type)) =>
                /\ i = Len(r_trace)
                /\ r_pc = "raised"
                /\ r_result = [kind |-> "exc", value |-> Len(Calls(r_trace)),
                               exc |-> r_trace[i].type]

\* an exception that is not listed was propagated after two retried failures
C9_Witness ==
    /\ r_pc = "raised"
    /\ r_cfg.exceptions = <<"OSError">>
    /\ r_cfg.max_attempts = 4
    /\ Len(Calls(r_trace)) = 3
    /\ r_result.exc = "KeyError"


(***************************************************************************)
(* CsvExporter._merge_csv_parts (src/utils/catalogExporter.py).  A file's  *)
(* bytes are a sequence of characters, "nl" the line feed.                 *)
(***************************************************************************)
EndsWith(s, p) ==
    Len(p) <= Len(s) /\ SubSeq(s, Len(s) - Len(p) + 1, Len(s)) = p

PartPrefix == <<"p", "a", "r", "t", "-">>
CsvSuffix == <<".", "c", "s", "v">>

\* the part files Spark may have written: part-0.csv, part-1.csv,
\* part-10.csv, part-2.csv
PartNamePool ==
    << PartPrefix \o <<"0">> \o CsvSuffix, PartPrefix \o <<"1">> \o CsvSuffix,
       PartPrefix \o <<"1", "0">> \o CsvSuffix, PartPrefix \o <<"2">> \o CsvSuffix >>

PartNames == {PartNamePool[i] : i \in 1..MaxParts}

\* the other files of the directory: _S (a marker), part-0.crc
OtherFiles ==
    { [name |-> <<"_", "S">>, bytes |-> <<>>],
      [name |-> PartPrefix \o <<"0", ".", "c", "r", "c">>, bytes |-> <<"x">>] }

\* what a part file may hold: a header and a row, only a header, a header
\* and a row without a final line feed, nothing
PartContents ==
    { <<"h", "nl", "a", "nl">>, <<"h", "nl">>, <<"h", "nl", "b">>, <<>> }

\* the directories: the other files and any of the parts, each with a content
Directories ==
    { OtherFiles \cup {[name |-> n, bytes |-> f[n]] : n \in names} :
        names \in SUBSET PartNames, f \in [PartNames -> PartContents] }

\* dest_file: "d/o" or "o"
DestFiles == { <<"d", "/", "o">>, <<"o">> }

\* os.path.dirname
RECURSIVE Dirname(_)
Dirname(path) ==
    IF path = <<>> THEN <<>>
    ELSE IF path[Len(path)] = "/" THEN SubSeq(path, 1, Len(path) - 1)
    ELSE Dirname(SubSeq(path, 1, Len(path) - 1))

\* the bytes of the file with this name
BytesOf(dir, name) == (CHOOSE f \in dir : f.name = name).bytes

\* what f.read() returns after f.readline()
RECURSIVE AfterReadline(_)
AfterReadline(bytes) ==
    IF bytes = <<>> THEN <<>>
    ELSE IF Head(bytes) = "nl" THEN Tail(bytes)
    ELSE AfterReadline(Tail(bytes))

\* CsvExporter._read_part
read_part(dir, task) ==
    [idx |-> task.idx,
     chunk |-> IF task.skip_header THEN AfterReadline(BytesOf(dir, task.path))
               ELSE BytesOf(dir, task.path)]

\* sorted(f for f in os.listdir(source_dir)
\*        if f.startswith("part-") and f.endswith(".csv"))
SortedParts(dir) ==
    Sorted({f.name : f \in {g \in dir : StartsWith(g.name, PartPrefix)
                                          /\ EndsWith(g.name, CsvSuffix)}})

SkipHeader_All(i) == i >= 0

\* i > 0
SkipHeader(i) == i > 0

\* tasks: (i, path, i > 0) for i, p in enumerate(parts)
MergeTasks(parts) ==
    [k \in 1..Len(parts) |->
        [idx |-> k - 1, path |-> parts[k], skip_header |-> SkipHeader(k - 1)]]

\* workers
Workers(cpus, tasks) == Min(cpus, Len(tasks))

\* sorted(results, key=lambda x: x[0]): a stable sort
RECURSIVE SortedByIdx(_)
SortedByIdx(results) ==
    IF results = <<>> THEN <<>>
    ELSE LET front == SortedByIdx(SubSeq(results, 1, Len(results) - 1))
             x == results[Len(results)]
             k == Cardinality({i \in 1..Len(front) : front[i].idx <= x.idx})
         IN  SubSeq(front, 1, k) \o <<x>> \o SubSeq(front, k + 1, Len(front))

RECURSIVE ConcatChunks(_)
ConcatChunks(results) ==
    IF results = <<>> THEN <<>>
    ELSE Head(results).chunk \o ConcatChunks(Tail(results))

\* _merge_csv_parts up to the submission of the tasks to the pool
MergeStart ==
    /\ m_pc = "idle"
    /\ \E isdir \in BOOLEAN, dir \in Directories, dest \in DestFiles,
          cpus \in 1..MaxCpus :
         /\ m_dest' = dest
         /\ m_cpus' = cpus
         /\ IF ~isdir
            THEN /\ m_pc' = "raised"
                 /\ UNCHANGED <<m_dir, m_tasks, m_futures>>
            ELSE /\ m_dir' = dir
                 /\ IF SortedParts(dir) = <<>>
                    THEN /\ m_pc' = "raised"
                         /\ UNCHANGED <<m_tasks, m_futures>>
                    ELSE /\ m_pc' = "reading"
                         /\ m_tasks' = MergeTasks(SortedParts(dir))
                         /\ m_futures' = [k \in 1..Len(SortedParts(dir)) |-> <<>>]
    /\ UNCHANGED <<m_taken, m_running, m_order, m_out, not_merge>>

\* a thread of the pool takes the next task off the queue
WorkerTake ==
    /\ m_pc = "reading"
    /\ m_taken < Len(m_tasks)
    /\ Cardinality(m_running) < Workers(m_cpus, m_tasks)
    /\ m_taken' = m_taken + 1
    /\ m_running' = m_running \cup {m_taken + 1}
    /\ UNCHANGED <<m_pc, m_dir, m_dest, m_cpus, m_tasks, m_futures, m_order, m_out,
                   not_merge>>

\* a thread finishes _read_part on its task
WorkerFinish ==
    /\ m_pc = "reading"
    /\ \E k \in m_running :
         /\ m_futures' = [m_futures EXCEPT ![k] = <<read_part(m_dir, m_tasks[k])>>]
         /\ m_running' = m_running \ {k}
         /\ m_order' = Append(m_order, k)
    /\ UNCHANGED <<m_pc, m_dir, m_dest, m_cpus, m_tasks, m_taken, m_out, not_merge>>

\* list(exe.map(...)) once every task has finished, then the write
MergeWrite ==
    /\ m_pc = "reading"
    /\ \A k \in 1..Len(m_tasks) : m_futures[k] # <<>>
    /\ LET results == [k \in 1..Len(m_tasks) |-> m_futures[k][1]]
       IN  IF Dirname(m_dest) = <<>>
           THEN /\ m_pc' = "raised"
                /\ UNCHANGED m_out
           ELSE /\ m_pc' = "written"
                /\ m_out' = <<ConcatChunks(SortedByIdx(results))>>
    /\ UNCHANGED <<m_dir, m_dest, m_cpus, m_tasks, m_taken, m_running, m_futures,
                   m_order, not_merge>>

InitMerge ==
    /\ td = TableDiscoveryInit(FALSE, <<>>, NoStr)
    /\ PipelineIdle
    /\ TreeIdle
    /\ RetryIdle
    /\ MergeIdle
    /\ RunsIdle
    /\ SparkIdle

NextMerge == MergeStart \/ WorkerTake \/ WorkerFinish \/ MergeWrite

SpecMerge == InitMerge /\ [][NextMerge]_vars

(***************************************************************************)
(* Properties of _merge_csv_parts                                          *)
(***************************************************************************)
\* the bytes after the first line
C10_WithoutHeader(bytes) ==
    IF \E i \in 1..Len(bytes) : bytes[i] = "nl"
    THEN LET first == CHOOSE i \in 1..Len(bytes) :
                         bytes[i] = "nl" /\ \A j \in 1..(i - 1) : bytes[j] # "nl"
         IN  SubSeq(bytes, first + 1, Len(bytes))
    ELSE <<>>

RECURSIVE C10_Concat(_, _, _)
C10_Concat(dir, names, i) ==
    IF i > Len(names) THEN <<>>
    ELSE (IF i = 1 THEN BytesOf(dir, names[i])
          ELSE C10_WithoutHeader(BytesOf(dir, names[i])))
             \o C10_Concat(dir, names, i + 1)

\* the part-*.csv files in ascending name order: the first whole, the
\* others without their first line
C10_Expected(dir) ==
    C10_Concat(dir, Sorted({f.name : f \in {g \in dir :
                   StartsWith(g.name, PartPrefix) /\ EndsWith(g.name, CsvSuffix)}}), 1)

\* C10: what _merge_csv_parts writes to dest_file is the concatenation, in
\* ascending file-name order of the part-*.csv files, of the whole first part
\* and of every later part without its first line, whatever the order in
\* which the pool's threads took and finished the reads; nothing is written
\* before every read has finished.
C10_MergeIsOrdered ==
    /\ m_pc = "written" => m_out = <<C10_Expected(m_dir)>>
    /\ m_out # <<>> => (m_pc = "written" /\ Len(m_order) = Len(m_tasks))

\* three parts were merged although the second read finished first
C10_Witness ==
    /\ m_pc = "written"
    /\ Len(m_tasks) = 3
    /\ m_order[1] = 2
    /\ m_out = << <<"h", "nl", "a", "nl", "b", "a", "nl">> >>

(***************************************************************************)
(* DatabricksAPIClient.get_all_runs_since                                  *)
(***************************************************************************)
\* a next_page_token that is missing or None, and the empty one: both falsy
NoToken == "none"
EmptyToken == ""
PageTokens == {"t1", "t2"}
TokenValues == {NoToken, EmptyToken} \cup PageTokens

\* `if next_page_token`
TokenTruthy(token) == token \notin {NoToken, EmptyToken}

\* the runs the list endpoint may return; has_start_time is FALSE when the
\* run has no start_time key, life_cycle_state is "none" without a state
Run(run_id, has_start_time, start_time, life_cycle_state) ==
    [run_id |-> run_id, has_start_time |-> has_start_time,
     start_time |-> start_time, life_cycle_state |-> life_cycle_state]

OldFinished == Run(1, TRUE, 1, "TERMINATED")
OldRunning == Run(2, TRUE, 1, "RUNNING")
NewFinished == Run(3, TRUE, 3, "TERMINATED")
NoStartTime == Run(4, FALSE, 0, "TERMINATED")
ZeroStartTime == Run(5, TRUE, 0, "TERMINATED")
NewNoState == Run(6, TRUE, 3, "none")

\* data.get("runs", []) of a response
PagePool ==
    { <<>>,
      <<OldFinished, NewFinished>>,
      <<OldRunning, NewNoState, OldFinished>>,
      <<NoStartTime, ZeroStartTime>> }

\* the cutoff argument: 0 (no cutoff) or a timestamp
Cutoffs == {0, 2}

\* str(run.get("run_id"))
RunIdStr(run_id) ==
    CASE run_id = 1 -> "1"
      [] run_id = 2 -> "2"
      [] run_id = 3 -> "3"
      [] run_id = 4 -> "4"
      [] run_id = 5 -> "5"
      [] run_id = 6 -> "6"

\* get_run_details: the JSON of the run, or the HTTPError of raise_for_status
\* (the details endpoint no longer knows run 6)
get_run_details(run_id) ==
    IF run_id = "6"
    THEN [raised |-> TRUE, json |-> [run_id |-> run_id, full |-> FALSE]]
    ELSE [raised |-> FALSE, json |-> [run_id |-> run_id, full |-> TRUE]]

\* params of the list request
ListParams_NoToken(next_page_token) == {}
ListParams(next_page_token) ==
    IF TokenTruthy(next_page_token)
    THEN {<<"page_token", next_page_token>>}
    ELSE {}

\* the condition of `continue`
SkipRun(cutoff, run) ==
    /\ cutoff # 0
    /\ run.has_start_time /\ run.start_time # 0
    /\ run.start_time < cutoff
    /\ run.life_cycle_state # "RUNNING"

\* the bodies the list endpoint may answer the nth request with; the API
\* ends the chain of pages at the latest with page MaxRequests
RunsListResponses(n) ==
    { [runs |-> page, next_page_token |-> token] :
        page \in PagePool,
        token \in IF n < MaxRequests THEN TokenValues
                  ELSE {NoToken, EmptyToken} }

\* the call, up to the first `while True`
GetAllRunsSince ==
    /\ a_pc = "idle"
    /\ \E cutoff \in Cutoffs : a_cutoff' = cutoff
    /\ a_token' = NoToken
    /\ a_runs_list' = <<>>
    /\ a_pc' = "request"
    /\ UNCHANGED <<a_requests, a_responses, a_pos, a_examined, not_runs>>

\* requests.get of the list endpoint, raise_for_status, response.json()
ListRequest ==
    /\ a_pc = "request"
    /\ a_requests' = Append(a_requests, ListParams(a_token))
    /\ \/ /\ a_pc' = "raised"
          /\ UNCHANGED <<a_responses, a_pos>>
       \/ /\ \E data \in RunsListResponses(Len(a_requests) + 1) :
                a_responses' = Append(a_responses, data)
          /\ a_pos' = 0
          /\ a_pc' = "examine"
    /\ UNCHANGED <<a_cutoff, a_token, a_examined, a_runs_list, not_runs>>

\* data and runs of the page being examined
CurrentData == a_responses[Len(a_responses)]

\* one iteration of `for run in runs`
ExamineRun ==
    /\ a_pc = "examine"
    /\ a_pos < Len(CurrentData.runs)
    /\ LET run == CurrentData.runs[a_pos + 1]
           run_id == RunIdStr(run.run_id)
           full_run == get_run_details(run_id)
           seen == [page |-> Len(a_responses), idx |-> a_pos + 1]
       IN  IF SkipRun(a_cutoff, run)
           THEN /\ a_examined' = Append(a_examined,
                       seen @@ [skipped |-> TRUE, requested |-> <<>>, ok |-> FALSE])
                /\ UNCHANGED a_runs_list
           ELSE /\ a_examined' = Append(a_examined,
                       seen @@ [skipped |-> FALSE, requested |-> <<run_id>>,
                                ok |-> ~full_run.raised])
                /\ a_runs_list' = IF full_run.raised THEN a_runs_list
                                  ELSE Append(a_runs_list, full_run.json)
    /\ a_pos' = a_pos + 1
    /\ UNCHANGED <<a_pc, a_cutoff, a_token, a_requests, a_responses, not_runs>>

\* after the for loop: next_page_token = data.get("next_page_token"), break
PageDone ==
    /\ a_pc = "examine"
    /\ a_pos = Len(CurrentData.runs)
    /\ a_token' = CurrentData.next_page_token
    /\ a_pc' = IF TokenTruthy(CurrentData.next_page_token) THEN "request"
               ELSE "returned"
    /\ UNCHANGED <<a_cutoff, a_requests, a_responses, a_pos, a_examined,
                   a_runs_list, not_runs>>

InitRuns ==
    /\ td = TableDiscoveryInit(FALSE, <<>>, NoStr)
    /\ PipelineIdle
    /\ TreeIdle
    /\ RetryIdle
    /\ MergeIdle
    /\ RunsIdle
    /\ SparkIdle

NextRuns == GetAllRunsSince \/ ListRequest \/ ExamineRun \/ PageDone

SpecRuns == InitRuns /\ [][NextRuns]_vars

(***************************************************************************)
(* Properties of get_all_runs_since                                        *)
(***************************************************************************)
\* the listed run an entry of a_examined is about
ExaminedRun(e) == a_responses[e.page].runs[e.idx]

\* the run has a start_time and it is before the cutoff
StartedBeforeCutoff(run) == run.has_start_time /\ run.start_time < a_cutoff

\* the details of the runs whose details request succeeded, in the order in
\* which the runs were examined
RECURSIVE FetchedOf(_)
FetchedOf(examined) ==
    IF examined = <<>> THEN <<>>
    ELSE LET e == examined[Len(examined)]
             rest == FetchedOf(SubSeq(examined, 1, Len(examined) - 1))
         IN  IF e.ok
             THEN Append(rest, [run_id |-> RunIdStr(ExaminedRun(e).run_id),
                                full |-> TRUE])
             ELSE rest

\* C11 (second half): a run that is not skipped has get_run_details
\* requested exactly once, with its run_id as a string, and runs_list holds
\* the details of the runs whose request succeeded, in page order and in
\* in-page order.
C11_FetchedOnceInOrder ==
    /\ \A k \in 1..Len(a_examined) :
         LET e == a_examined[k]
         IN  /\ ~e.skipped => e.requested = <<RunIdStr(ExaminedRun(e).run_id)>>
             /\ e.skipped => (e.requested = <<>> /\ ~e.ok)
    /\ a_runs_list = FetchedOf(a_examined)

\* C11: get_all_runs_since skips a listed run exactly when its start_time is
\* before the cutoff and its life_cycle_state is not RUNNING; every other
\* listed run has get_run_details requested exactly once and, when that
\* succeeds, its full run appended, so that the result is in page order and
\* in-page order.
C11_SkipsExactlyOldFinishedRuns ==
    /\ \A k \in 1..Len(a_examined) :
         LET e == a_examined[k]
             run == ExaminedRun(e)
         IN  e.skipped <=>
                (StartedBeforeCutoff(run) /\ run.life_cycle_state # "RUNNING")
    /\ C11_FetchedOnceInOrder

\* the same, for the runs whose start_time is not 0
C11_SkipRuleForNonZeroStart ==
    \A k \in 1..Len(a_examined) :
       LET e == a_examined[k]
           run == ExaminedRun(e)
       IN  run.start_time # 0 =>
             (e.skipped <=>
                (StartedBeforeCutoff(run) /\ run.life_cycle_state # "RUNNING"))

\* the response carries a next_page_token
HasNextPage(data) == TokenTruthy(data.next_page_token)

\* <<page, idx>> of the first n runs of page k, preceded by those of every
\* run of the pages before it
RECURSIVE RunsUpTo(_, _)
RunsUpTo(k, n) ==
    IF k = 0 THEN <<>>
    ELSE RunsUpTo(k - 1, IF k = 1 THEN 0 ELSE Len(a_responses[k - 1].runs))
           \o [i \in 1..n |-> <<k, i>>]

\* the runs of the fetched pages the loop has got to
RunsReached ==
    IF a_responses = <<>> THEN <<>>
    ELSE RunsUpTo(Len(a_responses),
                  IF a_pc = "examine" THEN a_pos
                  ELSE Len(a_responses[Len(a_responses)].runs))

\* C12: the first list request carries no page_token and each later one the
\* next_page_token of the response before it; the runs of the fetched pages
\* are examined once each, in order; no request follows a response without a
\* next_page_token, and the call returns right after the first such
\* response; until then the loop always has a next step, so it ends when
\* the API ends the chain of pages.
C12_FollowsPageTokenChain ==
    /\ \A k \in 1..Len(a_requests) :
         a_requests[k] =
            IF k = 1 THEN {}
            ELSE {<<"page_token", a_responses[k - 1].next_page_token>>}
    /\ \A k \in 1..(Len(a_responses) - 1) : HasNextPage(a_responses[k])
    /\ Len(a_requests) \in {Len(a_responses), Len(a_responses) + 1}
    /\ [k \in 1..Len(a_examined) |-> <<a_examined[k].page, a_examined[k].idx>>]
         = RunsReached
    /\ (a_pc = "returned") <=>
          (/\ a_responses # <<>>
           /\ a_pc \notin {"examine", "raised"}
           /\ ~HasNextPage(a_responses[Len(a_responses)]))
    /\ a_pc \in {"request", "examine"} =>
          ENABLED (ListRequest \/ ExamineRun \/ PageDone)
    /\ Len(a_requests) <= MaxRequests

\* three pages were fetched along two different tokens, the call returned
\* and it examined five runs
C12_Witness ==
    /\ a_pc = "returned"
    /\ Len(a_requests) = 3
    /\ a_requests[2] = {<<"page_token", "t2">>}
    /\ a_requests[3] = {<<"page_token", "t1">>}
    /\ Len(a_examined) = 5

(***************************************************************************)
(* The Spark catalog: create_database and DeltaTableUpdater                *)
(***************************************************************************)
\* the catalogs of the metastore, the catalog arguments (one names a catalog
\* that does not exist) and the database names
SparkCatalogs == {"main", "dev"}
CatalogArgs == SparkCatalogs \cup {"gone"}
DatabaseNames == {"d1", "d2"}

\* table_name of the updaters, and the database it is in
TableName == <<"main", "d1", "t">>
TableDatabase == <<TableName[1], TableName[2]>>

NoTable == [by |-> <<"none">>, rows |-> 0, partitioned |-> FALSE]
Updaters == 1..MaxUpdaters

\* spark.sql("SHOW DATABASES"): the databases of the current catalog
ShowDatabases == { db[2] : db \in {d \in s_dbs : d[1] = s_current} }

\* spark.sql(f"SHOW TABLES IN {catalog}.{database}"): raises when the
\* database is not there
ShowTablesIn(catalog, database) ==
    IF <<catalog, database>> \notin s_dbs
    THEN [raised |-> TRUE, tables |-> {}]
    ELSE [raised |-> FALSE,
          tables |-> IF <<catalog, database>> = TableDatabase /\ s_table # NoTable
                     THEN {TableName[3]} ELSE {}]

\* spark.sql(f"CREATE DATABASE IF NOT EXISTS {catalog}.{database}"): raises
\* when the catalog is not there
CreateDatabaseIfNotExists(catalog, database) ==
    IF catalog \notin SparkCatalogs
    THEN [raised |-> TRUE, dbs |-> s_dbs]
    ELSE [raised |-> FALSE, dbs |-> s_dbs \cup {<<catalog, database>>}]

\* database_exists
DatabaseExists(database) == database \in ShowDatabases

\* create_database(catalog, database): the statements executed, the message
\* printed last, and whether an exception left the call
CreateDatabase ==
    /\ \E catalog \in CatalogArgs, database \in DatabaseNames :
         LET shown == ShowTablesIn(catalog, database)
             made == CreateDatabaseIfNotExists(catalog, database)
             call == [pc |-> "done", catalog |-> catalog, database |-> database,
                      existed |-> <<catalog, database>> \in s_dbs,
                      escaped |-> FALSE]
         IN  IF DatabaseExists(database)
             THEN /\ s_call' = call @@
                       [sql |-> <<"SHOW DATABASES", "SHOW TABLES">>,
                        message |-> IF shown.raised THEN "error"
                                    ELSE IF shown.tables # {}
                                    THEN "contains tables"
                                    ELSE "empty"]
                  /\ UNCHANGED s_dbs
             ELSE /\ s_call' = call @@
                       [sql |-> <<"SHOW DATABASES", "CREATE DATABASE">>,
                        message |-> IF made.raised THEN "error" ELSE "created"]
                  /\ s_dbs' = made.dbs
    /\ UNCHANGED <<s_current, s_table, s_upd, not_spark>>

\* self.partition_column of the updaters: the first has one
PartitionColumn(u) == IF u = 1 THEN "dl_partition" ELSE "none"

\* DeltaTableUpdater.__init__, up to the call of create_table_if_not_exists
UpdaterConstruct(u) ==
    /\ s_upd[u].pc = "new"
    /\ \E create_if_not_exists \in BOOLEAN :
         s_upd' = [s_upd EXCEPT ![u].pc =
                      IF create_if_not_exists THEN "check" ELSE "ready"]
    /\ UNCHANGED <<s_current, s_dbs, s_table, s_call, not_spark>>

\* create_table_if_not_exists called on a constructed updater
UpdaterCall(u) ==
    /\ s_upd[u].pc = "ready"
    /\ s_upd' = [s_upd EXCEPT ![u].pc = "check"]
    /\ UNCHANGED <<s_current, s_dbs, s_table, s_call, not_spark>>

\* self.spark.catalog.tableExists(self.table_name)
tableExists == TableDatabase \in s_dbs /\ s_table # NoTable

UpdaterCheck(u) ==
    /\ s_upd[u].pc = "check"
    /\ s_upd' = [s_upd EXCEPT ![u].pc = IF tableExists THEN "ready" ELSE "write"]
    /\ UNCHANGED <<s_current, s_dbs, s_table, s_call, not_spark>>

\* what mode("overwrite").saveAsTable leaves under the table name
SavedTable(u) ==
    [by |-> <<"updater", u>>, rows |-> 0,
     partitioned |-> PartitionColumn(u) # "none"]

\* empty_df.write.format("delta") ... .mode("overwrite").saveAsTable
UpdaterWrite(u) ==
    /\ s_upd[u].pc = "write"
    /\ IF TableDatabase \notin s_dbs
       THEN /\ s_upd' = [s_upd EXCEPT ![u].pc = "raised"]
            /\ UNCHANGED s_table
       ELSE /\ s_upd' = [s_upd EXCEPT ![u].pc = "ready", ![u].replaced = s_table]
            /\ s_table' = SavedTable(u)
    /\ UNCHANGED <<s_current, s_dbs, s_call, not_spark>>

\* another writer of the same table name: creates it with rows, or adds rows
WriterRows == [by |-> <<"writer">>, rows |-> 1, partitioned |-> FALSE]

OtherWriter ==
    /\ TableDatabase \in s_dbs
    /\ s_table # WriterRows
    /\ s_table' = WriterRows
    /\ UNCHANGED <<s_current, s_dbs, s_call, s_upd, not_spark>>

InitSpark ==
    /\ td = TableDiscoveryInit(FALSE, <<>>, NoStr)
    /\ PipelineIdle
    /\ TreeIdle
    /\ RetryIdle
    /\ MergeIdle
    /\ RunsIdle
    /\ s_current \in SparkCatalogs
    /\ s_dbs \in SUBSET (SparkCatalogs \X DatabaseNames)
    /\ s_table = NoTable
    /\ s_call = [pc |-> "idle"]
    /\ s_upd = [u \in Updaters |-> [pc |-> "new", replaced |-> NoTable]]

NextSpark ==
    \/ CreateDatabase
    \/ \E u \in Updaters :
          UpdaterConstruct(u) \/ UpdaterCall(u) \/ UpdaterCheck(u) \/ UpdaterWrite(u)
    \/ OtherWriter

SpecSpark == InitSpark /\ [][NextSpark]_vars

(***************************************************************************)
(* Properties of the Spark catalog operations                              *)
(***************************************************************************)
\* C13: create_table_if_not_exists creates the table only if it does not
\* exist and never overwrites an existing table, also when other updaters
\* or another writer act on the table name between its existence check and
\* its write: no write of an updater has replaced a table.
C13_NeverOverwritesExistingTable ==
    \A u \in Updaters : s_upd[u].replaced = NoTable

\* without anyone else acting between the check and the write, the write
\* replaces nothing: a table that is replaced was written after the check
C13_OverwriteOnlyAfterRace ==
    \A u \in Updaters :
       s_upd[u].pc = "write" => (s_table = NoTable \/ s_table.by # <<"updater", u>>)

\* the last call executed CREATE DATABASE
C14_Created ==
    \E k \in 1..Len(s_call.sql) : s_call.sql[k] = "CREATE DATABASE"

\* C14: create_database(catalog, database) executes CREATE DATABASE if and
\* only if catalog.database did not exist in the specified catalog, and no
\* exception escapes the call.
C14_CreatesIffMissingInCatalog ==
    s_call.pc = "done" =>
       /\ C14_Created <=> ~s_call.existed
       /\ ~s_call.escaped

\* a call never removes a database and lets no exception escape
C14_NothingLostNothingEscapes ==
    /\ s_call.pc = "done" => ~s_call.escaped
    /\ [][s_dbs \subseteq s_dbs']_vars

=============================================================================
